---- MODULE Spec2Model ----
(***************************************************************************)
(* hftbacktest: the order bus and the orders (order.py), the event         *)
(* processor (proc/proc.py), the account state (state.py, assettype.py)    *)
(* and the Tardis converter (data/utils/tardis.py).                        *)
(*                                                                         *)
(* Timestamps held by the program are int64.  A timestamp handed to        *)
(* OrderBus.append may be any number (callers add a float latency to the   *)
(* current time); it is written here as an integer count of 1/Denom units  *)
(* and append converts it with int(), which truncates toward zero.         *)
(***************************************************************************)
EXTENDS Integers, Sequences, FiniteSets, TLC

\* ---- bounds ----
MaxTs == 2          \* largest timestamp of a data row or of an append
Denom == 2          \* a requested timestamp is n/Denom
MaxBus == 2         \* most entries an order bus holds
MaxRows == 2        \* most rows the reader delivers in all
MaxChunkLen == 2    \* most rows of one chunk
MaxResets == 1      \* most calls of _proc_reset in a run
MaxId == 2          \* order ids are 1..MaxId

VARIABLES
    orders_from,    \* Proc.orders_from: the inbound OrderBus
    orders_to,      \* Proc.orders_to: the outbound OrderBus
    chunks,         \* the chunks the reader will deliver, in order
    reader_pos,     \* how many chunks the reader has delivered
    next_data,      \* Proc.next_data
    data,           \* Proc.data
    row_num,        \* Proc.row_num
    next_row_num,   \* Proc.next_row_num
    call,           \* observation of the latest call (operation, inputs, result, events passed on)
    processed,      \* <<>> or <<timestamp of the last event passed to a handler>>
    reqs,           \* what the appends to the inbound bus promised so far
    reader_log,     \* the calls made to the reader, in order
    resets,         \* number of _proc_reset calls
    rt,             \* the round trip of the observed order: submit time, latencies, receive time
    passed,         \* the rows passed to _process_data so far: reader index and timestamp
    state,          \* the State_ object (state.py): its fields
    fill_log,       \* the start values of the State_ object and the fills applied since
    st_call,        \* observation of the latest call on the State_ object
    heap,           \* the Order objects and their q arrays, by reference
    ord_call,       \* observation of the latest operation on an Order object
    conv,           \* one run of the tardis convert function: its inputs, locals and outcome
    twice           \* two processors given the same reader chunks and the same calls

\* the variables of the parts modelled further down (state.py, Order, data/utils/tardis.py)
stateVars == <<state, fill_log, st_call>>
orderVars == <<heap, ord_call>>
convVars == <<conv>>
twiceVars == <<twice>>
extVars == <<stateVars, orderVars, convVars, twiceVars>>

vars == <<orders_from, orders_to, chunks, reader_pos, next_data, data, row_num,
          next_row_num, call, processed, reqs, reader_log, resets, rt, passed, extVars>>

\* no State_ object has been constructed
StateIdle == state = <<>> /\ fill_log = <<>> /\ st_call = <<>>
\* no Order object has been constructed
OrderIdle == heap = <<>> /\ ord_call = <<>>
\* convert has not been called
ConvIdle == conv = <<>>
\* no second processor is run alongside
TwiceIdle == twice = <<>>
ExtIdle == StateIdle /\ OrderIdle /\ ConvIdle /\ TwiceIdle

busVars == <<orders_from, orders_to>>
procVars == <<chunks, reader_pos, next_data, data, row_num, next_row_num, reader_log, resets, passed, rt>>

\* ---- order.py ----
Ids == 1..MaxId
Order(id) == [order_id |-> id]
Requests == (-Denom)..(MaxTs * Denom)

Min(a, b) == IF a < b THEN a ELSE b

\* int(timestamp): truncation toward zero of n/Denom
IntTrunc(n) == IF n >= 0 THEN n \div Denom ELSE -((-n) \div Denom)

EmptyDict == [k \in {} |-> 0]
\* an index update that overwrites the count instead of incrementing it
DictInc_set(d, k) == [x \in (DOMAIN d) \cup {k} |-> IF x = k THEN 1 ELSE d[x]]

DictInc(d, k) ==
    IF k \in DOMAIN d
    THEN [d EXCEPT ![k] = @ + 1]
    ELSE [x \in (DOMAIN d) \cup {k} |-> IF x = k THEN 1 ELSE d[x]]
DictDel(d, k) == [x \in (DOMAIN d) \ {k} |-> d[x]]

OrderBus_init ==
    [order_list |-> <<>>, orders |-> EmptyDict, frontmost_timestamp |-> 0]

\* append without the clamp to the tail's timestamp
AppendTimestamp_noclamp(bus, req) == IntTrunc(req)

\* append with the comparison of the clamp turned around
AppendTimestamp_flip(bus, req) ==
    LET timestamp == IntTrunc(req)
        n == Len(bus.order_list)
    IN  IF n > 0 /\ timestamp > bus.order_list[n][2]
        THEN bus.order_list[n][2]
        ELSE timestamp

\* the receive timestamp append stores for a request
AppendTimestamp(bus, req) ==
    LET timestamp == IntTrunc(req)
        n == Len(bus.order_list)
    IN  IF n > 0 /\ timestamp < bus.order_list[n][2]
        THEN bus.order_list[n][2]
        ELSE timestamp

\* append that always takes the minimum for frontmost_timestamp, 0 included
OrderBus_append_min(bus, order, req) ==
    LET timestamp == AppendTimestamp(bus, req)
    IN  [order_list |-> Append(bus.order_list, <<order, timestamp>>),
         orders |-> DictInc(bus.orders, order.order_id),
         frontmost_timestamp |-> Min(bus.frontmost_timestamp, timestamp)]

OrderBus_append(bus, order, req) ==
    LET timestamp == AppendTimestamp(bus, req)
    IN  [order_list |-> Append(bus.order_list, <<order, timestamp>>),
         orders |-> DictInc(bus.orders, order.order_id),
         frontmost_timestamp |->
            IF bus.frontmost_timestamp <= 0
            THEN timestamp
            ELSE Min(bus.frontmost_timestamp, timestamp)]

OrderBus_reset(bus) ==
    [order_list |-> <<>>, orders |-> EmptyDict, frontmost_timestamp |-> 0]

RemoveAt(s, i) == [j \in 1..(Len(s) - 1) |-> IF j < i THEN s[j] ELSE s[j + 1]]

\* delitem that keeps the key of an id whose count fell to 0
OrderBus_delitem_keepkey(bus, key) ==
    LET order == bus.order_list[key + 1][1]
    IN  [bus EXCEPT
            !.order_list = RemoveAt(bus.order_list, key + 1),
            !.orders = [bus.orders EXCEPT ![order.order_id] = @ - 1]]

\* delitem that also moves frontmost_timestamp to the new head
OrderBus_delitem_front(bus, key) ==
    LET order == bus.order_list[key + 1][1]
        dec == [bus.orders EXCEPT ![order.order_id] = @ - 1]
        rest == RemoveAt(bus.order_list, key + 1)
    IN  [order_list |-> rest,
         orders |-> IF dec[order.order_id] <= 0
                    THEN DictDel(dec, order.order_id)
                    ELSE dec,
         frontmost_timestamp |-> IF rest = <<>> THEN 0 ELSE rest[1][2]]

\* delitem(key), key 0-based
OrderBus_delitem(bus, key) ==
    LET order == bus.order_list[key + 1][1]
        dec == [bus.orders EXCEPT ![order.order_id] = @ - 1]
    IN  [bus EXCEPT
            !.order_list = RemoveAt(bus.order_list, key + 1),
            !.orders = IF dec[order.order_id] <= 0
                       THEN DictDel(dec, order.order_id)
                       ELSE dec]

OrderBus_contains(bus, key) == key \in DOMAIN bus.orders

\* ---- the reader ----
EmptyChunk == [id |-> 0, rows |-> <<>>]

ReaderNext(pos) ==
    IF pos < Len(chunks)
    THEN [id |-> pos + 1, rows |-> chunks[pos + 1]]
    ELSE EmptyChunk


\* ---- proc/proc.py ----
RowTs == (-1)..MaxTs
RowSeqs == UNION {[1..n -> RowTs] : n \in 0..MaxRows}

\* the reader cuts its rows into chunks of n rows, the last one shorter
RECURSIVE Split(_, _)
Split(rows, n) ==
    IF Len(rows) <= n
    THEN IF rows = <<>> THEN <<>> ELSE <<rows>>
    ELSE <<SubSeq(rows, 1, n)>> \o Split(SubSeq(rows, n + 1, Len(rows)), n)

\* the view-column timestamps of all rows, in reader order
RECURSIVE Flatten(_)
Flatten(cs) == IF cs = <<>> THEN <<>> ELSE Head(cs) \o Flatten(Tail(cs))

\* the place among all rows of the reader of row r (from 0) of chunk id
ReaderIndex(id, r) == Len(Flatten(SubSeq(chunks, 1, id - 1))) + r + 1

\* the part of the processor _next_data_timestamp_column reads and writes
Cursor ==
    [next_data |-> next_data, next_row_num |-> next_row_num,
     reader_pos |-> reader_pos, reader_log |-> reader_log, ret |-> 0]

\* the new chunk entered at its second row
LoadNext_second(s) ==
    LET nd == ReaderNext(s.reader_pos)
    IN  [s EXCEPT
            !.next_data = nd,
            !.reader_pos = Min(s.reader_pos + 1, Len(chunks)),
            !.next_row_num = Min(1, Len(nd.rows)),
            !.reader_log = s.reader_log \o
                <<[op |-> "release", id |-> s.next_data.id, held |-> s.next_data.id,
                   row |-> s.next_row_num, len |-> Len(s.next_data.rows)],
                  [op |-> "next", id |-> nd.id, held |-> s.next_data.id,
                   row |-> s.next_row_num, len |-> Len(s.next_data.rows)]>>]

\* reader.release(next_data); next_data = reader.next(); next_row_num = 0
LoadNext(s) ==
    LET nd == ReaderNext(s.reader_pos)
    IN  [s EXCEPT
            !.next_data = nd,
            !.reader_pos = Min(s.reader_pos + 1, Len(chunks)),
            !.next_row_num = 0,
            !.reader_log = s.reader_log \o
                <<[op |-> "release", id |-> s.next_data.id, held |-> s.next_data.id,
                   row |-> s.next_row_num, len |-> Len(s.next_data.rows)],
                  [op |-> "next", id |-> nd.id, held |-> s.next_data.id,
                   row |-> s.next_row_num, len |-> Len(s.next_data.rows)]>>]

RECURSIVE next_data_timestamp_column(_)
next_data_timestamp_column(s) ==
    IF s.next_row_num < Len(s.next_data.rows)
    THEN LET timestamp == s.next_data.rows[s.next_row_num + 1]
         IN  IF timestamp > 0
             THEN [s EXCEPT !.ret = timestamp]
             ELSE next_data_timestamp_column([s EXCEPT !.next_row_num = @ + 1])
    ELSE IF Len(s.next_data.rows) = 0
         THEN [s EXCEPT !.ret = -2]
         ELSE LET t == LoadNext(s)
              IN  IF Len(t.next_data.rows) = 0
                  THEN [t EXCEPT !.ret = -2]
                  ELSE IF t.next_data.rows[1] > 0
                       THEN [t EXCEPT !.ret = t.next_data.rows[1]]
                       ELSE next_data_timestamp_column([t EXCEPT !.next_row_num = 1])

\* next_timestamp without the case of no data timestamp
NextTimestampChoosesOrder_both(next_recv_order_timestamp, next_data_timestamp) ==
    0 < next_recv_order_timestamp /\ next_recv_order_timestamp < next_data_timestamp

\* next_timestamp preferring the order timestamp on equal timestamps
NextTimestampChoosesOrder_tie(next_recv_order_timestamp, next_data_timestamp) ==
    \/ (0 < next_recv_order_timestamp /\ next_recv_order_timestamp <= next_data_timestamp)
    \/ (next_data_timestamp <= 0 /\ 0 < next_recv_order_timestamp)

\* the condition under which next_timestamp returns the order timestamp
NextTimestampChoosesOrder(next_recv_order_timestamp, next_data_timestamp) ==
    \/ (0 < next_recv_order_timestamp /\ next_recv_order_timestamp < next_data_timestamp)
    \/ (next_data_timestamp <= 0 /\ 0 < next_recv_order_timestamp)

\* process taking the order part only when no data row is left
ProcessChoosesOrder_late(next_recv_order_timestamp, next_data_timestamp) ==
    next_data_timestamp <= 0 /\ 0 < next_recv_order_timestamp

\* process taking the order part on equal timestamps too
ProcessChoosesOrder_tie(next_recv_order_timestamp, next_data_timestamp) ==
    \/ (0 < next_recv_order_timestamp /\ next_recv_order_timestamp <= next_data_timestamp)
    \/ (next_data_timestamp <= 0 /\ 0 < next_recv_order_timestamp)

\* the condition under which process takes the order part
ProcessChoosesOrder(next_recv_order_timestamp, next_data_timestamp) ==
    \/ (0 < next_recv_order_timestamp /\ next_recv_order_timestamp < next_data_timestamp)
    \/ (next_data_timestamp <= 0 /\ 0 < next_recv_order_timestamp)

\* the loop popping only entries received before frontmost_timestamp
PopLoop_strict(bus, popped) ==
    IF Len(bus.order_list) > 0
    THEN LET head == bus.order_list[1]
         IN  IF head[2] < bus.frontmost_timestamp
             THEN LET rest == OrderBus_delitem(bus, 0)
                  IN  [bus |-> rest, popped |-> Append(popped, head),
                       next_frontmost_timestamp |->
                           IF Len(rest.order_list) > 0 THEN rest.order_list[1][2] ELSE 0]
             ELSE [bus |-> bus, popped |-> popped, next_frontmost_timestamp |-> head[2]]
    ELSE [bus |-> bus, popped |-> popped, next_frontmost_timestamp |-> 0]

\* the loop leaving after the first entry
PopLoop_one(bus, popped) ==
    IF Len(bus.order_list) > 0
    THEN LET head == bus.order_list[1]
         IN  IF head[2] <= bus.frontmost_timestamp
             THEN LET rest == OrderBus_delitem(bus, 0)
                  IN  [bus |-> rest, popped |-> Append(popped, head),
                       next_frontmost_timestamp |->
                           IF Len(rest.order_list) > 0 THEN rest.order_list[1][2] ELSE 0]
             ELSE [bus |-> bus, popped |-> popped, next_frontmost_timestamp |-> head[2]]
    ELSE [bus |-> bus, popped |-> popped, next_frontmost_timestamp |-> 0]

\* the while loop of the order part: pops the leading entries
RECURSIVE PopLoop(_, _)
PopLoop(bus, popped) ==
    IF Len(bus.order_list) > 0
    THEN LET head == bus.order_list[1]
         IN  IF head[2] <= bus.frontmost_timestamp
             THEN PopLoop(OrderBus_delitem(bus, 0), Append(popped, head))
             ELSE [bus |-> bus, popped |-> popped, next_frontmost_timestamp |-> head[2]]
    ELSE [bus |-> bus, popped |-> popped, next_frontmost_timestamp |-> 0]

\* an order part that leaves frontmost_timestamp as it was
OrderPart_keep(bus) ==
    LET r == PopLoop(bus, <<>>)
    IN  [bus |-> r.bus, popped |-> r.popped]

\* the order part of process
OrderPart(bus) ==
    LET r == PopLoop(bus, <<>>)
    IN  [bus |-> [r.bus EXCEPT !.frontmost_timestamp = r.next_frontmost_timestamp],
         popped |-> r.popped]

Event(kind, ts) == [kind |-> kind, ts |-> ts]
\* what _process_recv_order is handed: the order and its receive timestamp
OrderEvent(entry) == [kind |-> "order", ts |-> entry[2], order |-> entry[1]]
OrderEvents(popped) == [i \in 1..Len(popped) |-> OrderEvent(popped[i])]

NoCall == [op |-> "init", arg |-> <<>>, d |-> 0, f |-> 0, ret |-> 0,
           branch |-> "none", events |-> <<>>]

\* no order under observation yet
NoTrip == [stage |-> "idle", t |-> 0, e |-> 0, r |-> 0, x |-> 0, recv |-> 0]

\* nothing appended yet: every promise holds
NoReqs == [ge_last |-> TRUE, positive |-> TRUE, ge_one |-> TRUE]

\* ---- state after construction: OrderBus.__init__ twice, then Proc._proc_init ----
InitProcVars(cs) ==
    /\ chunks = cs
    /\ orders_from = OrderBus_init
    /\ orders_to = OrderBus_init
    /\ next_data = ReaderNext(0)
    /\ reader_pos = Min(1, Len(cs))
    /\ data = EmptyChunk
    /\ row_num = 0
    /\ next_row_num = 0
    /\ call = NoCall
    /\ processed = <<>>
    /\ reqs = NoReqs
    /\ reader_log = <<[op |-> "next", id |-> ReaderNext(0).id, held |-> 0, row |-> 0, len |-> 0]>>
    /\ resets = 0
    /\ rt = NoTrip
    /\ passed = <<>>

InitProc(cs) == InitProcVars(cs) /\ ExtIdle

Init == \E rows \in RowSeqs, n \in 1..MaxChunkLen : InitProc(Split(rows, n))

\* a sender appends to the inbound bus
AppendFrom(id, req) ==
    /\ Len(orders_from.order_list) < MaxBus
    /\ orders_from' = OrderBus_append(orders_from, Order(id), req)
    /\ call' = [NoCall EXCEPT !.op = "append", !.arg = <<id, req>>]
    /\ reqs' = [ge_last |-> reqs.ge_last /\ (processed = <<>> \/ req >= processed[1] * Denom),
                positive |-> reqs.positive /\ req > 0,
                ge_one |-> reqs.ge_one /\ req >= Denom]
    /\ UNCHANGED <<orders_to, processed>>
    /\ UNCHANGED <<procVars, extVars>>

\* Proc.next_timestamp()
NextTimestamp ==
    LET s == next_data_timestamp_column(Cursor)
        next_data_timestamp == s.ret
        next_recv_order_timestamp == orders_from.frontmost_timestamp
        order == NextTimestampChoosesOrder(next_recv_order_timestamp, next_data_timestamp)
    IN  /\ next_data' = s.next_data
        /\ next_row_num' = s.next_row_num
        /\ reader_pos' = s.reader_pos
        /\ reader_log' = s.reader_log
        /\ call' = [NoCall EXCEPT !.op = "next_timestamp",
                        !.d = next_data_timestamp, !.f = next_recv_order_timestamp,
                        !.branch = IF order THEN "order" ELSE "data",
                        !.ret = IF order THEN next_recv_order_timestamp ELSE next_data_timestamp]
        /\ UNCHANGED <<orders_from, orders_to, chunks, data, row_num, processed, reqs, resets, passed, rt, extVars>>

\* Proc.process(wait_resp), order part
ProcessOrder ==
    LET s == next_data_timestamp_column(Cursor)
        next_data_timestamp == s.ret
        next_recv_order_timestamp == orders_from.frontmost_timestamp
        r == OrderPart(orders_from)
    IN  /\ ProcessChoosesOrder(next_recv_order_timestamp, next_data_timestamp)
        /\ next_data' = s.next_data
        /\ next_row_num' = s.next_row_num
        /\ reader_pos' = s.reader_pos
        /\ reader_log' = s.reader_log
        /\ orders_from' = r.bus
        /\ call' = [NoCall EXCEPT !.op = "process",
                        !.d = next_data_timestamp, !.f = next_recv_order_timestamp,
                        !.branch = "order", !.events = OrderEvents(r.popped)]
        /\ processed' = IF r.popped = <<>> THEN processed
                        ELSE <<r.popped[Len(r.popped)][2]>>
        /\ UNCHANGED <<orders_to, chunks, data, row_num, reqs, resets, passed, rt, extVars>>

\* Proc.process(wait_resp), data part with a row to move to
ProcessData ==
    LET s == next_data_timestamp_column(Cursor)
        next_data_timestamp == s.ret
        next_recv_order_timestamp == orders_from.frontmost_timestamp
    IN  /\ ~ProcessChoosesOrder(next_recv_order_timestamp, next_data_timestamp)
        /\ s.next_row_num < Len(s.next_data.rows)
        /\ next_data' = s.next_data
        /\ reader_pos' = s.reader_pos
        /\ reader_log' = s.reader_log
        /\ row_num' = s.next_row_num
        /\ data' = s.next_data
        /\ next_row_num' = s.next_row_num + 1
        /\ call' = [NoCall EXCEPT !.op = "process",
                        !.d = next_data_timestamp, !.f = next_recv_order_timestamp,
                        !.branch = "data",
                        !.events = <<Event("data", s.next_data.rows[s.next_row_num + 1])>>]
        /\ processed' = <<s.next_data.rows[s.next_row_num + 1]>>
        /\ passed' = Append(passed, [index |-> ReaderIndex(s.next_data.id, s.next_row_num),
                                     ts |-> s.next_data.rows[s.next_row_num + 1]])
        /\ UNCHANGED <<orders_from, orders_to, chunks, reqs, resets, rt, extVars>>

\* Proc.process(wait_resp), data part with no row left: data[row_num] raises IndexError
ProcessNoRow ==
    LET s == next_data_timestamp_column(Cursor)
        next_data_timestamp == s.ret
        next_recv_order_timestamp == orders_from.frontmost_timestamp
    IN  /\ ~ProcessChoosesOrder(next_recv_order_timestamp, next_data_timestamp)
        /\ ~(s.next_row_num < Len(s.next_data.rows))
        /\ next_data' = s.next_data
        /\ reader_pos' = s.reader_pos
        /\ reader_log' = s.reader_log
        /\ row_num' = s.next_row_num
        /\ data' = s.next_data
        /\ next_row_num' = s.next_row_num
        /\ call' = [NoCall EXCEPT !.op = "process",
                        !.d = next_data_timestamp, !.f = next_recv_order_timestamp,
                        !.branch = "error"]
        /\ UNCHANGED <<orders_from, orders_to, chunks, processed, reqs, resets, passed, rt, extVars>>

\* Proc._proc_reset(...)
ProcReset ==
    LET nd == ReaderNext(reader_pos)
    IN  /\ resets < MaxResets
        /\ resets' = resets + 1
        /\ next_data' = nd
        /\ reader_pos' = Min(reader_pos + 1, Len(chunks))
        /\ reader_log' = reader_log \o
                <<[op |-> "reset", id |-> 0, held |-> next_data.id,
                   row |-> next_row_num, len |-> Len(next_data.rows)],
                  [op |-> "next", id |-> nd.id, held |-> next_data.id,
                   row |-> next_row_num, len |-> Len(next_data.rows)]>>
        /\ data' = EmptyChunk
        /\ row_num' = 0
        /\ next_row_num' = 0
        /\ orders_to' = OrderBus_reset(orders_to)
        /\ orders_from' = OrderBus_reset(orders_from)
        /\ call' = [NoCall EXCEPT !.op = "reset"]
        /\ processed' = <<>>
        /\ reqs' = NoReqs
        /\ UNCHANGED <<chunks, rt, passed, extVars>>

Next ==
    \/ \E id \in Ids, req \in Requests : AppendFrom(id, req)
    \/ NextTimestamp
    \/ ProcessOrder
    \/ ProcessData
    \/ ProcessNoRow
    \/ ProcReset

Spec == Init /\ [][Next]_vars


\* ---- the order bus on its own: append, delitem and reset called in any order ----
InitBus == InitProc(<<>>)

\* OrderBus.delitem(key)
Delitem(key) ==
    /\ key < Len(orders_from.order_list)
    /\ orders_from' = OrderBus_delitem(orders_from, key)
    /\ call' = [NoCall EXCEPT !.op = "delitem",
                    !.arg = <<key, orders_from.order_list[key + 1][1].order_id>>]
    /\ UNCHANGED <<orders_to, processed, reqs>>
    /\ UNCHANGED <<procVars, extVars>>

\* OrderBus.reset()
BusReset ==
    /\ orders_from' = OrderBus_reset(orders_from)
    /\ call' = [NoCall EXCEPT !.op = "reset"]
    /\ reqs' = NoReqs
    /\ UNCHANGED <<orders_to, processed>>
    /\ UNCHANGED <<procVars, extVars>>

NextBus ==
    \/ \E id \in Ids, req \in Requests : AppendFrom(id, req)
    \/ \E key \in 0..(MaxBus - 1) : Delitem(key)
    \/ BusReset

SpecBus == InitBus /\ [][NextBus]_vars

\* ---- helpers of the properties ----
RecvTs(bus) == [i \in 1..Len(bus.order_list) |-> bus.order_list[i][2]]
NonDecreasing(s) == \A i \in 1..(Len(s) - 1) : s[i] <= s[i + 1]
Count(bus, id) == Cardinality({i \in 1..Len(bus.order_list) : bus.order_list[i][1].order_id = id})

\* C1: after any appends, delitems and resets the receive timestamps held in
\* order_list are non-decreasing from front to back.
C1_BusMonotone == NonDecreasing(RecvTs(orders_from))

\* an append whose requested timestamp was below the tail's has been clamped
C1_Witness ==
    /\ call.op = "append"
    /\ Len(orders_from.order_list) = 2
    /\ IntTrunc(call.arg[2]) < orders_from.order_list[1][2]
    /\ orders_from.order_list[2][2] = orders_from.order_list[1][2]

\* C5: orders[id] is the number of held entries carrying id, no key has a count
\* of 0 or less, and `id in bus` holds exactly when an entry with id is held.
C5_IndexCounts ==
    \A id \in Ids :
        /\ id \in DOMAIN orders_from.orders =>
                /\ orders_from.orders[id] = Count(orders_from, id)
                /\ orders_from.orders[id] > 0
        /\ OrderBus_contains(orders_from, id) <=> Count(orders_from, id) >= 1

\* an id appended twice is still a member after one of its entries was deleted
C5_Witness ==
    /\ call.op = "delitem"
    /\ Len(orders_from.order_list) = 1
    /\ orders_from.order_list[1][1].order_id = call.arg[2]
    /\ OrderBus_contains(orders_from, call.arg[2])

\* what C6 says an append leaves behind, for the timestamp ts (in 1/Denom units)
\* it says is stored
AppendedAs(before, after, id, ts) ==
    LET n == Len(before.order_list)
    IN  /\ Len(after.order_list) = n + 1
        /\ \A i \in 1..n : after.order_list[i] = before.order_list[i]
        /\ after.order_list[n + 1][1] = Order(id)
        /\ after.order_list[n + 1][2] * Denom = ts
        /\ \A k \in Ids :
              Count(after, k) > 0 =>
                /\ k \in DOMAIN after.orders
                /\ after.orders[k] = (IF k \in DOMAIN before.orders THEN before.orders[k] ELSE 0)
                                     + (IF k = id THEN 1 ELSE 0)

\* C6 as stated: the stored timestamp is last_ts when ts < last_ts, and ts itself otherwise.
C6_AppendAsStated ==
    [][call'.op = "append" =>
        LET n == Len(orders_from.order_list)
            ts == call'.arg[2]
            last_ts == orders_from.order_list[n][2] * Denom
        IN  AppendedAs(orders_from, orders_from', call'.arg[1],
                       IF n > 0 /\ ts < last_ts THEN last_ts ELSE ts)]_vars

\* C6 amended: append adds exactly one entry at the tail, leaves the others
\* unchanged and increments orders[o.order_id]; the stored timestamp is last_ts
\* when int(ts) < last_ts and int(ts), the truncation of ts toward zero, otherwise.
C6_Append ==
    [][call'.op = "append" =>
        LET n == Len(orders_from.order_list)
            t == (IF call'.arg[2] >= 0 THEN call'.arg[2] \div Denom
                                       ELSE -((-call'.arg[2]) \div Denom)) * Denom
            last_ts == orders_from.order_list[n][2] * Denom
        IN  AppendedAs(orders_from, orders_from', call'.arg[1],
                       IF n > 0 /\ t < last_ts THEN last_ts ELSE t)]_vars

\* an append of a timestamp with a fractional part went to a non-empty bus
C6_Witness ==
    /\ call.op = "append"
    /\ Len(orders_from.order_list) = 2
    /\ call.arg[2] % Denom /= 0
    /\ call.arg[2] > orders_from.order_list[1][2] * Denom


\* ---- the processor ----
EventTs(events) == [i \in 1..Len(events) |-> events[i].ts]
RowsSorted == NonDecreasing(Flatten(chunks))
MinOf(s) == CHOOSE m \in {s[i] : i \in 1..Len(s)} : \A i \in 1..Len(s) : m <= s[i]
RemainingRows ==
    SubSeq(next_data.rows, next_row_num + 1, Len(next_data.rows))
        \o Flatten(SubSeq(chunks, reader_pos + 1, Len(chunks)))

\* C2 as stated: when the next data timestamp equals the frontmost order
\* timestamp (both positive), process takes the order step and pops the orders.
C2_OrderFirstOnTie ==
    (call.op = "process" /\ call.d = call.f /\ call.d > 0) =>
        (call.branch = "order" /\ call.events /= <<>>)

\* C2 amended: when the next data timestamp equals the frontmost order
\* timestamp (both positive), the data row is processed first: the call takes
\* the data step, consumes the row at that timestamp and leaves the inbound bus
\* and its pending orders untouched.
C2_DataFirstOnTie ==
    [][(call'.op = "process" /\ call'.d = call'.f /\ call'.d > 0) =>
        /\ call'.branch = "data"
        /\ call'.events = <<Event("data", call'.d)>>
        /\ orders_from' = orders_from
        /\ orders_from.order_list /= <<>>]_vars

\* a process call met a data row and a pending order with the same timestamp
C2_Witness ==
    /\ call.op = "process"
    /\ call.d = call.f
    /\ call.d > 0
    /\ Len(orders_from.order_list) > 0
    /\ orders_from.order_list[1][2] = call.d

\* C3 as stated: with rows sorted by the view column and every append
\* requesting a timestamp not below that of the last processed event, the
\* timestamps of the processed events never decrease.
C3_MonotoneAsStated ==
    [][(call'.op = "process" /\ RowsSorted /\ reqs.ge_last) =>
        NonDecreasing(processed \o EventTs(call'.events))]_vars

\* C3 amended: with rows sorted by the view column and every append requesting
\* a timestamp that is at least 1 and not below that of the last processed
\* event, the timestamps of the processed events never decrease.
C3_Monotone ==
    [][(call'.op = "process" /\ RowsSorted /\ reqs.ge_last /\ reqs.ge_one) =>
        NonDecreasing(processed \o EventTs(call'.events))]_vars

\* after a data row, an order step popped two orders, all appends as promised
C3_Witness ==
    /\ RowsSorted /\ reqs.ge_last /\ reqs.ge_one
    /\ call.op = "process"
    /\ call.branch = "order"
    /\ Len(call.events) = 2
    /\ data.id /= 0
    /\ data.rows[row_num + 1] > 0

\* what C4 says frontmost_timestamp is
FrontmostIsMin ==
    orders_from.frontmost_timestamp =
        IF orders_from.order_list = <<>> THEN 0 ELSE MinOf(RecvTs(orders_from))

\* C4 as stated: after appends of positive timestamps, resets and process
\* calls, frontmost_timestamp is the minimum held receive timestamp, 0 when empty.
C4_FrontmostAsStated == reqs.positive => FrontmostIsMin

\* C4 amended: after appends of timestamps that are at least 1, resets and
\* process calls, frontmost_timestamp is the minimum held receive timestamp,
\* and 0 when the bus is empty.
C4_Frontmost == reqs.ge_one => FrontmostIsMin

\* an order step popped the head and left a later entry at the front
C4_Witness ==
    /\ reqs.ge_one
    /\ call.op = "process"
    /\ call.branch = "order"
    /\ call.events /= <<>>
    /\ orders_from.order_list /= <<>>

\* C8: next_timestamp returns the smaller of the two timestamps when both are
\* positive, the positive one when exactly one is, and a non-positive value
\* when neither is.
C8_NextTimestamp ==
    call.op = "next_timestamp" =>
        /\ (call.d > 0 /\ call.f > 0) =>
              (call.ret <= call.d /\ call.ret <= call.f /\ call.ret \in {call.d, call.f})
        /\ (call.d > 0 /\ call.f <= 0) => call.ret = call.d
        /\ (call.d <= 0 /\ call.f > 0) => call.ret = call.f
        /\ (call.d <= 0 /\ call.f <= 0) => call.ret <= 0

\* next_timestamp chose the order timestamp over a later data timestamp
C8_Witness ==
    /\ call.op = "next_timestamp"
    /\ call.f > 0
    /\ call.d > call.f
    /\ call.ret = call.f

\* C9 as stated: next_timestamp returns a value <= 0 exactly when the inbound
\* bus is empty and no remaining row has a positive timestamp.
C9_EndAsStated ==
    call.op = "next_timestamp" =>
        (call.ret <= 0 <=>
            /\ orders_from.order_list = <<>>
            /\ \A i \in 1..Len(RemainingRows) : RemainingRows[i] <= 0)

\* C9 amended: provided every append to the inbound bus requested a timestamp
\* of at least 1, next_timestamp returns a value <= 0 exactly when the inbound
\* bus is empty and no remaining row has a positive timestamp.
C9_End ==
    (call.op = "next_timestamp" /\ reqs.ge_one) =>
        (call.ret <= 0 <=>
            /\ orders_from.order_list = <<>>
            /\ \A i \in 1..Len(RemainingRows) : RemainingRows[i] <= 0)

\* end of data reported after rows were consumed, a chunk boundary was crossed
\* and orders were popped
C9_Witness ==
    /\ call.op = "next_timestamp"
    /\ reqs.ge_one
    /\ call.ret <= 0
    /\ Len(chunks) = 2
    /\ data.id /= 0
    /\ processed /= <<>>

\* C10: every reader.next() is preceded by a release of the chunk held, a chunk
\* is released only after all its rows were consumed or skipped, at most once,
\* and after an empty chunk no next() or release() follows until a reset.
C10_ReaderProtocol ==
    \A i \in 1..Len(reader_log) :
        LET e == reader_log[i]
        IN  /\ (e.op = "next" /\ e.held /= 0) =>
                  (i > 1 /\ reader_log[i - 1].op = "release" /\ reader_log[i - 1].id = e.held)
            /\ e.op = "release" => (e.id /= 0 /\ e.row >= e.len)
            /\ e.op = "release" =>
                  \A j \in 1..Len(reader_log) :
                      (reader_log[j].op = "release" /\ reader_log[j].id = e.id) => j = i
            /\ (e.op = "next" /\ e.id = 0) =>
                  (i = Len(reader_log) \/ reader_log[i + 1].op = "reset")


\* ---- an order's round trip over the two buses ----
\* orders_to carries requests from the local to the exchange processor and
\* orders_from carries the responses back.  Order 1 is the observed order, the
\* other ids are other traffic.
Latencies == 0..(MaxTs * Denom)
Others == Ids \ {1}

InitTrip == InitProc(<<>>)

\* the local processor submits the observed order at local time t:
\* orders_to.append(order, t + entry_latency)
Submit(t, e) ==
    /\ rt.stage = "idle"
    /\ Len(orders_to.order_list) < MaxBus
    /\ orders_to' = OrderBus_append(orders_to, Order(1), t * Denom + e)
    /\ rt' = [NoTrip EXCEPT !.stage = "sent", !.t = t, !.e = e]
    /\ call' = [NoCall EXCEPT !.op = "submit", !.arg = <<1, t * Denom + e>>]
    /\ UNCHANGED <<orders_from, chunks, reader_pos, next_data, data, row_num,
                   next_row_num, processed, reqs, reader_log, resets, passed, extVars>>

\* other requests on their way to the exchange
OtherRequest(id, req) ==
    /\ Len(orders_to.order_list) < MaxBus
    /\ orders_to' = OrderBus_append(orders_to, Order(id), req)
    /\ call' = [NoCall EXCEPT !.op = "request", !.arg = <<id, req>>]
    /\ UNCHANGED <<orders_from, chunks, reader_pos, next_data, data, row_num,
                   next_row_num, processed, reqs, reader_log, resets, passed, rt, extVars>>

\* other responses on their way to the local processor
OtherResponse(id, req) ==
    /\ Len(orders_from.order_list) < MaxBus
    /\ orders_from' = OrderBus_append(orders_from, Order(id), req)
    /\ call' = [NoCall EXCEPT !.op = "response", !.arg = <<id, req>>]
    /\ UNCHANGED <<orders_to, chunks, reader_pos, next_data, data, row_num,
                   next_row_num, processed, reqs, reader_log, resets, passed, rt, extVars>>

\* the exchange answers each popped order: append(order, recv_timestamp + response latency)
RECURSIVE Respond(_, _, _)
Respond(bus, popped, lat) ==
    IF popped = <<>>
    THEN bus
    ELSE Respond(OrderBus_append(bus, Head(popped)[1], Head(popped)[2] * Denom + lat),
                 Tail(popped), lat)

IsPopped(popped, id) == \E i \in 1..Len(popped) : popped[i][1].order_id = id
PoppedTs(popped, id) ==
    popped[CHOOSE i \in 1..Len(popped) : popped[i][1].order_id = id][2]

\* the order part of the exchange processor's process(): it pops its inbound
\* bus and answers on the bus to the local processor
ExchangeProcess(r) ==
    LET step == OrderPart(orders_to)
    IN  /\ ProcessChoosesOrder(orders_to.frontmost_timestamp, -2)
        /\ Len(orders_from.order_list) + Len(step.popped) <= MaxBus
        /\ orders_to' = step.bus
        /\ orders_from' = Respond(orders_from, step.popped, r)
        /\ rt' = IF rt.stage = "sent" /\ IsPopped(step.popped, 1)
                 THEN [rt EXCEPT !.stage = "answered", !.r = r, !.x = PoppedTs(step.popped, 1)]
                 ELSE rt
        /\ call' = [NoCall EXCEPT !.op = "exchange", !.f = orders_to.frontmost_timestamp,
                        !.branch = "order", !.events = OrderEvents(step.popped)]
        /\ UNCHANGED <<chunks, reader_pos, next_data, data, row_num,
                       next_row_num, processed, reqs, reader_log, resets, passed, extVars>>

\* the order part of the local processor's process(): it pops the responses
LocalProcess ==
    LET step == OrderPart(orders_from)
    IN  /\ ProcessChoosesOrder(orders_from.frontmost_timestamp, -2)
        /\ orders_from' = step.bus
        /\ rt' = IF rt.stage = "answered" /\ IsPopped(step.popped, 1)
                 THEN [rt EXCEPT !.stage = "done", !.recv = PoppedTs(step.popped, 1)]
                 ELSE rt
        /\ call' = [NoCall EXCEPT !.op = "local", !.f = orders_from.frontmost_timestamp,
                        !.branch = "order", !.events = OrderEvents(step.popped)]
        /\ UNCHANGED <<orders_to, chunks, reader_pos, next_data, data, row_num,
                       next_row_num, processed, reqs, reader_log, resets, passed, extVars>>

NextTrip ==
    \/ \E t \in 1..MaxTs, e \in Latencies : Submit(t, e)
    \/ \E id \in Others, req \in Requests : OtherRequest(id, req)
    \/ \E id \in Others, req \in Requests : OtherResponse(id, req)
    \/ \E r \in Latencies : ExchangeProcess(r)
    \/ LocalProcess

SpecTrip == InitTrip /\ [][NextTrip]_vars

\* C7 as stated: the receive timestamp at which the local processor pops the
\* response, minus the submit time, is at least entry_latency + response_latency.
C7_RoundTripAsStated ==
    rt.stage = "done" => (rt.recv - rt.t) * Denom >= rt.e + rt.r

\* C7 amended: the receive timestamp at which the local processor pops the
\* response, minus the submit time, is at least int(entry_latency) +
\* int(response_latency), each latency cut to a whole number, for every
\* interleaving of other appends on both buses; for whole latencies that is
\* entry_latency + response_latency.
C7_RoundTrip ==
    rt.stage = "done" =>
        /\ rt.recv - rt.t >= (rt.e \div Denom) + (rt.r \div Denom)
        /\ (rt.e % Denom = 0 /\ rt.r % Denom = 0) => (rt.recv - rt.t) * Denom >= rt.e + rt.r

\* the response came back after the bus clamp had delayed it behind other traffic
C7_Witness ==
    /\ rt.stage = "done"
    /\ rt.e > 0
    /\ rt.r > 0
    /\ rt.recv - rt.t > (rt.e \div Denom) + (rt.r \div Denom)


(***************************************************************************)
(* The account state (state.py) and the asset types (assettype.py).        *)
(*                                                                         *)
(* The fields are float64.  A number is written here as an exact fraction  *)
(* <<numerator, denominator>> in lowest terms with a positive denominator; *)
(* +, -, * and / are the exact operations, so the rounding of float64 is   *)
(* outside this model.                                                     *)
(***************************************************************************)

\* ---- bounds ----
MaxFills == 2       \* most fills applied to the State_ object in a run
MaxStateResets == 1 \* most calls of State_.reset in a run
MaxContract == 2    \* contract sizes are 1..MaxContract
MaxQty == 2         \* executed quantities are 1..MaxQty

\* ---- order.py: sides ----
BUY == 1
SELL == -1

\* ---- exact arithmetic of the float64 fields ----
Abs(n) == IF n < 0 THEN -n ELSE n

RECURSIVE GCD(_, _)
GCD(a, b) == IF b = 0 THEN a ELSE GCD(b, a % b)

\* the fraction n/d (d # 0) in lowest terms with a positive denominator
Frac(n, d) ==
    LET g == GCD(Abs(n), Abs(d)) IN
    IF d < 0 THEN <<(-n) \div g, (-d) \div g>> ELSE <<n \div g, d \div g>>

R(n) == <<n, 1>>
RAdd(x, y) == Frac(x[1] * y[2] + y[1] * x[2], x[2] * y[2])
RSub(x, y) == Frac(x[1] * y[2] - y[1] * x[2], x[2] * y[2])
RMul(x, y) == Frac(x[1] * y[1], x[2] * y[2])
\* x / y for y # 0
RDiv(x, y) == Frac(x[1] * y[2], x[2] * y[1])

\* ---- order.py: the fields of an order that State_.apply_fill reads ----
\* Order.exec_price
Order_exec_price(o) == R(o.exec_price_tick * o.tick_size)

\* ---- assettype.py ----
LinearAsset(c) == [kind |-> "linear", contract_size |-> c]
InverseAsset(c) == [kind |-> "inverse", contract_size |-> c]

\* the amount without the contract size
LinearAsset_amount_nosize(a, exec_price, qty) == RMul(exec_price, qty)

\* LinearAsset.amount
LinearAsset_amount(a, exec_price, qty) == RMul(RMul(R(a.contract_size), exec_price), qty)

\* LinearAsset.equity
LinearAsset_equity(a, price, balance, position, fee) ==
    RSub(RAdd(balance, RMul(RMul(R(a.contract_size), position), price)), fee)

\* the division of InverseAsset.amount and InverseAsset.equity raises ZeroDivisionError
DivRaises(a, price) == a.kind = "inverse" /\ price[1] = 0

\* InverseAsset.amount, for exec_price # 0
InverseAsset_amount(a, exec_price, qty) == RDiv(RMul(R(a.contract_size), qty), exec_price)

\* the equity with the balance taken as it stands
InverseAsset_equity_plus(a, price, balance, position, fee) ==
    RSub(RSub(balance, RDiv(RMul(R(a.contract_size), position), price)), fee)

\* InverseAsset.equity, for price # 0
InverseAsset_equity(a, price, balance, position, fee) ==
    RSub(RSub(RSub(R(0), balance), RDiv(RMul(R(a.contract_size), position), price)), fee)

\* asset_type.amount(exec_price, qty)
Asset_amount(a, exec_price, qty) ==
    IF a.kind = "linear" THEN LinearAsset_amount(a, exec_price, qty)
    ELSE InverseAsset_amount(a, exec_price, qty)

\* asset_type.equity(price, balance, position, fee)
Asset_equity(a, price, balance, position, fee) ==
    IF a.kind = "linear" THEN LinearAsset_equity(a, price, balance, position, fee)
    ELSE InverseAsset_equity(a, price, balance, position, fee)

\* ---- state.py ----
\* State_.__init__
State_init(start_position, start_balance, start_fee, maker_fee, taker_fee, asset_type) ==
    [position |-> start_position, balance |-> start_balance, fee |-> start_fee,
     trade_num |-> 0, trade_qty |-> R(0), trade_amount |-> R(0),
     maker_fee |-> maker_fee, taker_fee |-> taker_fee, asset_type |-> asset_type]

\* the two fee rates exchanged
FeeRate_swapped(st, order) == IF order.maker THEN st.taker_fee ELSE st.maker_fee

\* the fee rate State_.apply_fill charges for a fill
FeeRate(st, order) == IF order.maker THEN st.maker_fee ELSE st.taker_fee

\* the position moved by the quantity whatever the side
State_apply_fill_noside(st, order) ==
    LET fee == FeeRate(st, order)
        amount == Asset_amount(st.asset_type, Order_exec_price(order), R(order.exec_qty))
    IN  [st EXCEPT !.position = RAdd(@, R(order.exec_qty)),
                   !.balance = RSub(@, RMul(amount, R(order.side))),
                   !.fee = RAdd(@, RMul(amount, fee)),
                   !.trade_num = @ + 1,
                   !.trade_qty = RAdd(@, R(order.exec_qty)),
                   !.trade_amount = RAdd(@, amount)]

\* State_.apply_fill, when asset_type.amount does not raise
State_apply_fill(st, order) ==
    LET fee == FeeRate(st, order)
        amount == Asset_amount(st.asset_type, Order_exec_price(order), R(order.exec_qty))
    IN  [st EXCEPT !.position = RAdd(@, R(order.exec_qty * order.side)),
                   !.balance = RSub(@, RMul(amount, R(order.side))),
                   !.fee = RAdd(@, RMul(amount, fee)),
                   !.trade_num = @ + 1,
                   !.trade_qty = RAdd(@, R(order.exec_qty)),
                   !.trade_amount = RAdd(@, amount)]

\* State_.equity, when asset_type.equity does not raise
State_equity(st, mid) == Asset_equity(st.asset_type, mid, st.balance, st.position, st.fee)

None == <<>>

\* State_.reset: a fee rate given as None keeps the current one
State_reset(st, start_position, start_balance, start_fee, maker_fee, taker_fee) ==
    [st EXCEPT !.position = start_position,
               !.balance = start_balance,
               !.fee = start_fee,
               !.trade_num = 0,
               !.trade_qty = R(0),
               !.trade_amount = R(0),
               !.maker_fee = IF maker_fee = None THEN @ ELSE maker_fee,
               !.taker_fee = IF taker_fee = None THEN @ ELSE taker_fee]

\* ---- the inputs ----
AssetTypes == {LinearAsset(c) : c \in 1..MaxContract} \cup {InverseAsset(c) : c \in 1..MaxContract}
\* start position, start balance, start fee
Starts == {<<R(0), R(0), R(0)>>, <<R(1), R(-2), Frac(3, 2)>>}
MakerFees == {Frac(-1, 4)}
TakerFees == {Frac(1, 2)}
ResetMakerFees == {None, R(0)}
ResetTakerFees == {None, R(1)}
ExecPriceTicks == {0, 2, 100}
Mids == {R(0), Frac(5, 2), R(110)}
FillOrders ==
    [exec_price_tick : ExecPriceTicks, tick_size : {1}, exec_qty : 1..MaxQty,
     side : {BUY, SELL}, maker : BOOLEAN]

\* the other parts are idle while the State_ object is exercised
InitState ==
    /\ InitProcVars(<<>>)
    /\ OrderIdle
    /\ ConvIdle
    /\ TwiceIdle
    /\ \E a \in AssetTypes, s \in Starts, mf \in MakerFees, tf \in TakerFees :
        /\ state = State_init(s[1], s[2], s[3], mf, tf, a)
        /\ fill_log = [start |-> s, fills |-> <<>>, resets |-> 0]
        /\ st_call = [op |-> "init", order |-> <<>>, arg |-> <<>>, pre |-> <<>>, ret |-> <<>>, raised |-> FALSE]

coreVars == <<orders_from, orders_to, chunks, reader_pos, next_data, data, row_num,
              next_row_num, call, processed, reqs, reader_log, resets, passed, rt>>

\* State_.apply_fill(order)
ApplyFill(order) ==
    /\ Len(fill_log.fills) < MaxFills
    /\ ~DivRaises(state.asset_type, Order_exec_price(order))
    /\ state' = State_apply_fill(state, order)
    /\ fill_log' = [fill_log EXCEPT !.fills = Append(@, order)]
    /\ st_call' = [op |-> "apply_fill", order |-> order, arg |-> order, pre |-> state, ret |-> <<>>,
                   raised |-> FALSE]
    /\ UNCHANGED <<coreVars, orderVars, convVars, twiceVars>>

\* State_.apply_fill(order) when asset_type.amount raises ZeroDivisionError: no
\* field has been assigned yet
ApplyFillRaises(order) ==
    /\ Len(fill_log.fills) < MaxFills
    /\ DivRaises(state.asset_type, Order_exec_price(order))
    /\ st_call' = [op |-> "apply_fill", order |-> order, arg |-> order, pre |-> state,
                   ret |-> <<>>, raised |-> TRUE]
    /\ UNCHANGED <<state, fill_log>>
    /\ UNCHANGED <<coreVars, orderVars, convVars, twiceVars>>

\* State_.equity(mid)
Equity(mid) ==
    /\ st_call' = [op |-> "equity", order |-> <<>>, arg |-> mid, pre |-> state,
                   ret |-> IF DivRaises(state.asset_type, mid) THEN <<>> ELSE State_equity(state, mid),
                   raised |-> DivRaises(state.asset_type, mid)]
    /\ UNCHANGED <<state, fill_log>>
    /\ UNCHANGED <<coreVars, orderVars, convVars, twiceVars>>

\* State_.reset(start_position, start_balance, start_fee, maker_fee, taker_fee)
StateReset(s, mf, tf) ==
    /\ fill_log.resets < MaxStateResets
    /\ state' = State_reset(state, s[1], s[2], s[3], mf, tf)
    /\ fill_log' = [start |-> s, fills |-> <<>>, resets |-> fill_log.resets + 1]
    /\ st_call' = [op |-> "reset", order |-> <<>>, arg |-> <<s, mf, tf>>, pre |-> state, ret |-> <<>>,
                   raised |-> FALSE]
    /\ UNCHANGED <<coreVars, orderVars, convVars, twiceVars>>

NextState ==
    \/ \E o \in FillOrders : ApplyFill(o)
    \/ \E o \in FillOrders : ApplyFillRaises(o)
    \/ \E mid \in Mids : Equity(mid)
    \/ \E s \in Starts, mf \in ResetMakerFees, tf \in ResetTakerFees : StateReset(s, mf, tf)

SpecState == InitState /\ [][NextState]_vars

\* ---- the fill log ----
RECURSIVE SumOver(_, _, _)
\* the sum of F(fill) over the fills of a log, F given as a function on FillOrders
SumOver(fills, F, i) ==
    IF i > Len(fills) THEN R(0) ELSE RAdd(F[fills[i]], SumOver(fills, F, i + 1))

\* C11: after any sequence of apply_fill calls since construction or the last
\* reset, position minus the start position is the sum of exec_qty * side over
\* the fills, trade_num is the number of fills and trade_qty is the sum of
\* exec_qty over the fills.
C11_Conservation ==
    /\ RSub(state.position, fill_log.start[1]) =
           SumOver(fill_log.fills, [o \in FillOrders |-> R(o.exec_qty * o.side)], 1)
    /\ state.trade_num = Len(fill_log.fills)
    /\ state.trade_qty = SumOver(fill_log.fills, [o \in FillOrders |-> R(o.exec_qty)], 1)

\* two fills of opposite sides and different quantities applied after a reset
\* to a non-zero start position
C11_Witness ==
    /\ fill_log.resets = 1
    /\ fill_log.start[1] # R(0)
    /\ Len(fill_log.fills) = 2
    /\ fill_log.fills[1].side # fill_log.fills[2].side
    /\ fill_log.fills[1].exec_qty # fill_log.fills[2].exec_qty

\* the latest call was an apply_fill that returned
Filled == st_call.op = "apply_fill" /\ ~st_call.raised

C13_LinearEquity ==
    (st_call.op = "equity" /\ state.asset_type.kind = "linear") =>
        LET C == R(state.asset_type.contract_size)
            mid == st_call.arg
            fills == fill_log.fills
            notional == [o \in FillOrders |-> RMul(RMul(C, R(o.exec_price_tick * o.tick_size)), R(o.exec_qty))]
            paid == SumOver(fills, [o \in FillOrders |-> RMul(notional[o], R(o.side))], 1)
            signed == SumOver(fills, [o \in FillOrders |-> R(o.exec_qty * o.side)], 1)
            fees == SumOver(fills, [o \in FillOrders |->
                        RMul(notional[o], IF o.maker THEN state.maker_fee ELSE state.taker_fee)], 1)
        IN  /\ st_call.ret = RSub(RAdd(state.balance, RMul(RMul(C, state.position), mid)), state.fee)
            /\ st_call.ret =
                   RSub(RAdd(RSub(fill_log.start[2], paid),
                             RMul(RMul(C, RAdd(fill_log.start[1], signed)), mid)),
                        RAdd(fill_log.start[3], fees))

\* the equity of a linear account of contract size 2 read after a maker and a
\* taker fill from a non-zero start
C13_Witness ==
    /\ st_call.op = "equity"
    /\ state.asset_type = LinearAsset(2)
    /\ st_call.arg = Frac(5, 2)
    /\ fill_log.start[3] # R(0)
    /\ Len(fill_log.fills) = 2
    /\ fill_log.fills[1].maker # fill_log.fills[2].maker
    /\ fill_log.fills[1].exec_price_tick > 0

\* the worked example: one buy of quantity 1 at price 100, contract size 1, zero start
C14_Example ==
    /\ state.asset_type = InverseAsset(1)
    /\ fill_log.start = <<R(0), R(0), R(0)>>
    /\ Len(fill_log.fills) = 1
    /\ fill_log.fills[1].exec_price_tick * fill_log.fills[1].tick_size = 100
    /\ fill_log.fills[1].exec_qty = 1
    /\ fill_log.fills[1].side = BUY

\* C14: with an InverseAsset of contract size C, amount(p, q) is C * q / p and
\* equity(p, b, pos, f) is -b - C * pos / p - f for every non-zero p; a buy of
\* quantity 1 at price 100 with C = 1 from a zero start gives balance -1/100 and
\* equity at price 110 equal to 1/100 - 1/110 - fee.
C14_Inverse ==
    /\ (Filled /\ state.asset_type.kind = "inverse") =>
           RSub(state.trade_amount, st_call.pre.trade_amount) =
               Frac(state.asset_type.contract_size * st_call.arg.exec_qty,
                    st_call.arg.exec_price_tick * st_call.arg.tick_size)
    /\ (st_call.op = "equity" /\ state.asset_type.kind = "inverse" /\ st_call.arg # R(0)) =>
           st_call.ret =
               RSub(R(0), RAdd(RAdd(state.balance,
                                    Frac(state.asset_type.contract_size * state.position[1] * st_call.arg[2],
                                         state.position[2] * st_call.arg[1])),
                               state.fee))
    /\ C14_Example => state.balance = Frac(-1, 100)
    /\ (C14_Example /\ st_call.op = "equity" /\ st_call.arg = R(110)) =>
           st_call.ret = RSub(RSub(Frac(1, 100), Frac(1, 110)), state.fee)

\* the equity of the worked example read at price 110
C14_Witness ==
    /\ C14_Example
    /\ st_call.op = "equity"
    /\ st_call.arg = R(110)
    /\ st_call.ret = RSub(Frac(1, 1100), state.fee)

(***************************************************************************)
(* The Order object (order.py).  Orders are jitclass instances and q is a  *)
(* numpy array: both are held by reference, so the heap maps a reference   *)
(* to the fields of an order and to the elements of an array.              *)
(***************************************************************************)

\* ---- bounds ----
MaxWrites == 2      \* most field assignments made through the caller's order in a run

\* ---- order.py: constants ----
NONE == 0
New == 1            \* NEW in order.py
EXPIRED == 2
FILLED == 3
CANCELED == 4
PARTIALLY_FILLED == 5
MODIFY == 6
REJECTED == 7
GTC == 0
GTX == 1
LIMIT == 0
MARKET == 1

Statuses == {NONE, New, EXPIRED, FILLED, CANCELED, PARTIALLY_FILLED, MODIFY, REJECTED}

\* Order.__init__, with qref the array np.zeros(2, float64) allocated for q
Order_init(order_id, price_tick, tick_size, qty, side, time_in_force, order_type, qref) ==
    [qty |-> qty, leaves_qty |-> qty, price_tick |-> price_tick, tick_size |-> tick_size,
     side |-> side, time_in_force |-> time_in_force, exch_timestamp |-> 0, status |-> NONE,
     local_timestamp |-> 0, req |-> NONE, exec_price_tick |-> 0, exec_qty |-> 0,
     order_id |-> order_id, q |-> qref, maker |-> FALSE, order_type |-> order_type]

\* a status or a request pending, whichever
Order_cancellable_or(o) == o.status = New \/ o.req = NONE

\* Order.cancellable
Order_cancellable(o) == o.status = New /\ o.req = NONE

\* the copy keeps the array of the original
Order_copy_shareq(h, r) ==
    LET self == h.orders[r]
        order == [Order_init(self.order_id, self.price_tick, self.tick_size, self.qty, self.side,
                             self.time_in_force, self.order_type, self.q)
                  EXCEPT !.leaves_qty = self.leaves_qty,
                         !.exch_timestamp = self.exch_timestamp,
                         !.status = self.status,
                         !.local_timestamp = self.local_timestamp,
                         !.req = self.req,
                         !.exec_price_tick = self.exec_price_tick,
                         !.exec_qty = self.exec_qty,
                         !.order_id = self.order_id,
                         !.maker = self.maker]
    IN  [orders |-> Append(h.orders, order), arrays |-> Append(h.arrays, <<0, 0>>)]

\* a copy built by the constructor alone
Order_copy_fresh(h, r) ==
    LET self == h.orders[r]
        qref == Len(h.arrays) + 1
        order == Order_init(self.order_id, self.price_tick, self.tick_size, self.qty, self.side,
                            self.time_in_force, self.order_type, qref)
    IN  [orders |-> Append(h.orders, order), arrays |-> Append(h.arrays, h.arrays[self.q])]

\* Order.copy: the heap after the call; the new order is the last one allocated
Order_copy(h, r) ==
    LET self == h.orders[r]
        qref == Len(h.arrays) + 1
        order == [Order_init(self.order_id, self.price_tick, self.tick_size, self.qty, self.side,
                             self.time_in_force, self.order_type, qref)
                  EXCEPT !.leaves_qty = self.leaves_qty,
                         !.exch_timestamp = self.exch_timestamp,
                         !.status = self.status,
                         !.local_timestamp = self.local_timestamp,
                         !.req = self.req,
                         !.exec_price_tick = self.exec_price_tick,
                         !.exec_qty = self.exec_qty,
                         !.order_id = self.order_id,
                         !.maker = self.maker]
    IN  [orders |-> Append(h.orders, order), arrays |-> Append(h.arrays, h.arrays[self.q])]

\* an assignment to a field of the order r, or to an element of its q
Order_set(h, r, field, v) ==
    CASE field = "status" -> [h EXCEPT !.orders[r].status = v]
      [] field = "req" -> [h EXCEPT !.orders[r].req = v]
      [] field = "leaves_qty" -> [h EXCEPT !.orders[r].leaves_qty = v]
      [] field = "exec_qty" -> [h EXCEPT !.orders[r].exec_qty = v]
      [] field = "q0" -> [h EXCEPT !.arrays[h.orders[r].q][1] = v]
      [] field = "q1" -> [h EXCEPT !.arrays[h.orders[r].q][2] = v]
      [] field = "qty" -> [h EXCEPT !.orders[r].qty = v]
      [] field = "price_tick" -> [h EXCEPT !.orders[r].price_tick = v]
      [] field = "tick_size" -> [h EXCEPT !.orders[r].tick_size = v]
      [] field = "side" -> [h EXCEPT !.orders[r].side = v]
      [] field = "time_in_force" -> [h EXCEPT !.orders[r].time_in_force = v]
      [] field = "order_type" -> [h EXCEPT !.orders[r].order_type = v]
      [] field = "exch_timestamp" -> [h EXCEPT !.orders[r].exch_timestamp = v]
      [] field = "local_timestamp" -> [h EXCEPT !.orders[r].local_timestamp = v]
      [] field = "exec_price_tick" -> [h EXCEPT !.orders[r].exec_price_tick = v]
      [] field = "order_id" -> [h EXCEPT !.orders[r].order_id = v]
      [] field = "maker" -> [h EXCEPT !.orders[r].maker = v]

\* the order r as its holder reads it: the fields, and the elements of q
Deref(h, r) == [h.orders[r] EXCEPT !.q = h.arrays[h.orders[r].q]]

\* ---- the inputs ----
Caller == 1         \* the reference the caller holds: the first order allocated
Writes ==
    ({"status", "req"} \X Statuses) \cup ({"leaves_qty", "exec_qty", "q0", "q1"} \X (0..MaxQty))
        \cup ({"qty", "price_tick", "tick_size", "exch_timestamp", "local_timestamp",
               "exec_price_tick"} \X (0..MaxQty))
        \cup ({"side"} \X {BUY, SELL}) \cup ({"time_in_force"} \X {GTC, GTX})
        \cup ({"order_type"} \X {LIMIT, MARKET}) \cup ({"order_id"} \X Ids)
        \cup ({"maker"} \X BOOLEAN)

InitOrder ==
    /\ InitProcVars(<<>>)
    /\ StateIdle
    /\ ConvIdle
    /\ TwiceIdle
    /\ \E side \in {BUY, SELL} :
        heap = [orders |-> <<Order_init(1, 1, 1, MaxQty, side, GTC, LIMIT, 1)>>, arrays |-> <<<<0, 0>>>>]
    /\ ord_call = [op |-> "init", field |-> "", ret |-> FALSE, writes |-> 0, ref |-> 0]

orderFrame == <<orders_from, chunks, reader_pos, next_data, data, row_num, next_row_num, call,
                processed, reqs, reader_log, resets, passed, rt, stateVars, convVars, twiceVars>>

\* the caller assigns a field of its order
SetField(field, v) ==
    /\ ord_call.writes < MaxWrites
    /\ heap' = Order_set(heap, Caller, field, v)
    /\ ord_call' = [op |-> "set", field |-> field, ret |-> FALSE, writes |-> ord_call.writes + 1,
                     ref |-> Caller]
    /\ UNCHANGED <<orders_to, orderFrame>>

\* the receiver assigns a field of the order held by the i-th entry of the bus
SetHeldField(i, field, v) ==
    /\ ord_call.writes < MaxWrites
    /\ i <= Len(orders_to.order_list)
    /\ heap' = Order_set(heap, orders_to.order_list[i][1].ref, field, v)
    /\ ord_call' = [op |-> "set_held", field |-> field, ret |-> FALSE,
                     writes |-> ord_call.writes + 1, ref |-> orders_to.order_list[i][1].ref]
    /\ UNCHANGED <<orders_to, orderFrame>>

\* the caller reads order.cancellable
ReadCancellable ==
    /\ ord_call' = [ord_call EXCEPT !.op = "cancellable", !.field = "",
                                    !.ret = Order_cancellable(heap.orders[Caller])]
    /\ UNCHANGED <<heap, orders_to, orderFrame>>

\* orders_to.append(order, timestamp)
AppendOrder ==
    /\ Len(orders_to.order_list) < MaxBus
    /\ orders_to' = OrderBus_append(orders_to,
                        [order_id |-> heap.orders[Caller].order_id, ref |-> Caller, copied |-> FALSE],
                        Denom)
    /\ ord_call' = [ord_call EXCEPT !.op = "append", !.field = "", !.ret = FALSE]
    /\ UNCHANGED <<heap, orderFrame>>

\* orders_to.append(order.copy(), timestamp)
AppendCopy ==
    /\ Len(orders_to.order_list) < MaxBus
    /\ heap' = Order_copy(heap, Caller)
    /\ orders_to' = OrderBus_append(orders_to,
                        [order_id |-> heap'.orders[Len(heap'.orders)].order_id,
                         ref |-> Len(heap'.orders), copied |-> TRUE],
                        Denom)
    /\ ord_call' = [ord_call EXCEPT !.op = "append_copy", !.field = "", !.ret = FALSE,
                                    !.ref = Len(heap'.orders)]
    /\ UNCHANGED orderFrame

NextOrder ==
    \/ \E w \in Writes : SetField(w[1], w[2])
    \/ \E i \in 1..MaxBus, w \in Writes : SetHeldField(i, w[1], w[2])
    \/ ReadCancellable
    \/ AppendOrder
    \/ AppendCopy

SpecOrder == InitOrder /\ [][NextOrder]_vars

\* the order held by the i-th entry of the outbound bus, as the receiver reads it
Held(h, i) == Deref(h, orders_to.order_list[i][1].ref)

\* C15 as stated: after OrderBus.append(o, ts), changing a field of the caller's
\* order o (status, req, leaves_qty, exec_qty, q) does not change the order held
\* in the bus entry.
C15_ValueCopyAsStated ==
    [][ord_call'.op = "set" =>
           \A i \in 1..Len(orders_to.order_list) : Held(heap', i) = Held(heap, i)]_vars

\* C15 amended: OrderBus.append stores the order object it is given.  After
\* append(o.copy(), ts), changing a field of the caller's order o (status, req,
\* leaves_qty, exec_qty, q) does not change the order held in the bus entry;
\* after append(o, ts) the entry holds o itself and shows every change.
C15_ValueCopy ==
    [][ord_call'.op = "set" =>
           \A i \in 1..Len(orders_to.order_list) :
               IF orders_to.order_list[i][1].copied
               THEN Held(heap', i) = Held(heap, i)
               ELSE Held(heap', i) = Deref(heap', Caller)]_vars

\* the caller has changed the status and an element of q of its order after a
\* copy of it was placed on the bus, and the entry still holds the old values
C15_Witness ==
    /\ ord_call.op = "set"
    /\ ord_call.field = "q0"
    /\ \E i \in 1..Len(orders_to.order_list) :
        /\ orders_to.order_list[i][1].copied
        /\ Held(heap, i).q # Deref(heap, Caller).q
        /\ Held(heap, i).status # Deref(heap, Caller).status

\* C20: Order.cancellable is true exactly when status = NEW and req = NONE; for
\* every other combination of status and req it is false.
C20_Cancellable ==
    ord_call.op = "cancellable" =>
        LET o == heap.orders[Caller] IN
        /\ ord_call.ret = TRUE <=> (o.status = 1 /\ o.req = 0)
        /\ o.status \in {0, 2, 3, 4, 5, 6, 7} => ord_call.ret = FALSE
        /\ o.req # 0 => ord_call.ret = FALSE

\* a new order with a cancel request in flight is read as not cancellable
C20_Witness ==
    /\ ord_call.op = "cancellable"
    /\ heap.orders[Caller].status = New
    /\ heap.orders[Caller].req = CANCELED
    /\ ord_call.ret = FALSE

(***************************************************************************)
(* The Tardis converter (data/utils/tardis.py).                            *)
(*                                                                         *)
(* A line of an input file is given by what convert reads from it: the     *)
(* number of its columns, the is_snapshot and side columns as text and the *)
(* numbers that int() and float() parse from the other columns.  An output *)
(* row is <<event, exchange timestamp, local timestamp, side, price, qty>>.*)
(* merge_on_local_timestamp, correct and validate_data are imported from   *)
(* outside src/: their results are left open.                              *)
(***************************************************************************)

\* ---- bounds ----
MaxLines == 3       \* most data lines of a depth file

\* ---- the event codes convert imports ----
DEPTH_EVENT == "DEPTH_EVENT"
TRADE_EVENT == "TRADE_EVENT"
DEPTH_CLEAR_EVENT == "DEPTH_CLEAR_EVENT"
DEPTH_SNAPSHOT_EVENT == "DEPTH_SNAPSHOT_EVENT"

\* ---- convert: the file types ----
TRADE == 0
DEPTH == 1

\* ---- the body of the loop over the lines of a file ----
\* a line with fewer than 8 columns is skipped
IsInvalid(line) == line.cols < 8

\* the row written for a trade line
TradeRow(line) ==
    <<TRADE_EVENT, line.timestamp, line.local_timestamp,
      IF line.side = "buy" THEN 1 ELSE -1, line.price, line.amount>>

\* the row buffered for a snapshot line, and the side it is buffered on
SnapshotRow(line) ==
    <<DEPTH_SNAPSHOT_EVENT, line.timestamp, line.local_timestamp,
      IF line.side = "bid" THEN 1 ELSE -1, line.price, line.amount>>

\* the row written for a depth line that is not a snapshot line
DepthRow(line) ==
    <<DEPTH_EVENT, line.timestamp, line.local_timestamp,
      IF line.side = "bid" THEN 1 ELSE -1, line.price, line.amount>>

\* the locals of convert at the start of a file
FileLocals ==
    [tmp |-> <<>>, is_snapshot |-> FALSE, ss_bid |-> <<>>, ss_ask |-> <<>>, is_sod_snapshot |-> TRUE]

\* a snapshot line is skipped
SnapshotSkipped(snapshot_mode, f) ==
    snapshot_mode = "ignore" \/ (snapshot_mode = "ignore_sod" /\ f.is_sod_snapshot)

\* cols[4] == 'true': the line is buffered unless the mode skips it
SnapshotLine(snapshot_mode, f, line) ==
    IF SnapshotSkipped(snapshot_mode, f) THEN f
    ELSE LET g == IF ~f.is_snapshot
                  THEN [f EXCEPT !.is_snapshot = TRUE, !.ss_bid = <<>>, !.ss_ask = <<>>]
                  ELSE f
         IN  IF line.side = "bid"
             THEN [g EXCEPT !.ss_bid = Append(@, SnapshotRow(line))]
             ELSE [g EXCEPT !.ss_ask = Append(@, SnapshotRow(line))]

\* the rows written for one side at the end of a snapshot: the clear event, then the buffer
FlushSide(ss, side) ==
    IF Len(ss) > 0
    THEN <<<<DEPTH_CLEAR_EVENT, ss[1][2], ss[1][3], side, ss[Len(ss)][5], 0>>>> \o ss
    ELSE <<>>

\* any other depth line: an open snapshot is written out, then the line's own row
DepthLine(f, line) ==
    LET flushed == IF f.is_snapshot
                   THEN f.tmp \o FlushSide(f.ss_bid, 1) \o FlushSide(f.ss_ask, -1)
                   ELSE f.tmp
    IN  [tmp |-> Append(flushed, DepthRow(line)),
         is_snapshot |-> FALSE,
         ss_bid |-> IF f.is_snapshot THEN <<>> ELSE f.ss_bid,
         ss_ask |-> IF f.is_snapshot THEN <<>> ELSE f.ss_ask,
         is_sod_snapshot |-> FALSE]

\* a trade line
TradeLine(f, line) == [f EXCEPT !.tmp = Append(@, TradeRow(line))]

\* ---- the end of convert ----
\* merge_on_local_timestamp over the sets, the sort on the local timestamp and correct
Corrected(sets) == [corrected |-> sets]

\* the output file written before the data is validated
ConvertTail_savefirst(c, num_corr) ==
    LET d == Corrected(c.sets)
        written == IF c.output_filename # None THEN <<[file |-> c.output_filename, data |-> d]>> ELSE <<>>
    IN  IF num_corr < 0
        THEN [c EXCEPT !.stage = "raised", !.data = <<d>>, !.num_corr = num_corr, !.saved = written]
        ELSE [c EXCEPT !.stage = "returned", !.data = <<d>>, !.num_corr = num_corr,
                       !.saved = written, !.returned = <<d>>]

\* from the merge to the return: ValueError when validate_data is negative
ConvertTail(c, num_corr) ==
    LET d == Corrected(c.sets) IN
    IF num_corr < 0
    THEN [c EXCEPT !.stage = "raised", !.data = <<d>>, !.num_corr = num_corr]
    ELSE [c EXCEPT !.stage = "returned", !.data = <<d>>, !.num_corr = num_corr,
                   !.saved = IF c.output_filename # None
                             THEN <<[file |-> c.output_filename, data |-> d]>> ELSE <<>>,
                   !.returned = <<d>>]

\* ---- the inputs ----
Modes == {"process", "ignore_sod", "ignore"}
OutputFilenames == {None, <<"out.npz">>}
NumCorr == {-1, 0, 1}
LineShapes == {<<"", "">>} \cup ({"true", "false"} \X {"bid", "ask"})

\* the i-th line of a depth file: its numbers tell the lines of a file apart
DepthFileLine(shape, i) ==
    [cols |-> IF shape = <<"", "">> THEN 1 ELSE 8, is_snapshot |-> shape[1], side |-> shape[2],
     timestamp |-> i, local_timestamp |-> MaxLines + i, price |-> 2 * MaxLines + i, amount |-> 1]

DepthFiles ==
    UNION {{[file_type |-> DEPTH, lines |-> [i \in 1..n |-> DepthFileLine(shapes[i], i)]] :
               shapes \in [1..n -> LineShapes]} : n \in 0..MaxLines}

TradeFiles ==
    {[file_type |-> TRADE,
      lines |-> <<[cols |-> 8, is_snapshot |-> "", side |-> sd, timestamp |-> 1,
                   local_timestamp |-> 1, price |-> 1, amount |-> 1]>>] : sd \in {"buy", "sell"}}

InputFiles == {<<d>> : d \in DepthFiles} \cup {<<t, d>> : t \in TradeFiles, d \in DepthFiles}

\* convert is called; no file has been opened yet
InitConv ==
    /\ InitProcVars(<<>>)
    /\ StateIdle
    /\ OrderIdle
    /\ TwiceIdle
    /\ \E files \in InputFiles, mode \in Modes, out \in OutputFilenames :
        conv = [input_files |-> files, snapshot_mode |-> mode, output_filename |-> out,
                stage |-> "next_file", file |-> 0, pos |-> 0, f |-> FileLocals, sets |-> <<>>,
                data |-> <<>>, num_corr |-> 0, saved |-> <<>>, returned |-> <<>>]

convFrame == <<coreVars, stateVars, orderVars, twiceVars>>

\* the file being read and its next line
CurFile == conv.input_files[conv.file]
CurLine == CurFile.lines[conv.pos + 1]
Reading == conv.stage = "reading" /\ conv.pos < Len(CurFile.lines)

\* the next file is opened: fresh locals, and the header line gives the file type
OpenFile ==
    /\ conv.stage = "next_file"
    /\ conv.file < Len(conv.input_files)
    /\ conv' = [conv EXCEPT !.stage = "reading", !.file = @ + 1, !.pos = 0, !.f = FileLocals]
    /\ UNCHANGED convFrame

\* a line with fewer than 8 columns
ReadInvalid ==
    /\ Reading
    /\ IsInvalid(CurLine)
    /\ conv' = [conv EXCEPT !.pos = @ + 1]
    /\ UNCHANGED convFrame

\* a line of a trades file
ReadTrade ==
    /\ Reading
    /\ ~IsInvalid(CurLine)
    /\ CurFile.file_type = TRADE
    /\ conv' = [conv EXCEPT !.pos = @ + 1, !.f = TradeLine(@, CurLine)]
    /\ UNCHANGED convFrame

\* a snapshot line of a depth file
ReadSnapshot ==
    /\ Reading
    /\ ~IsInvalid(CurLine)
    /\ CurFile.file_type = DEPTH
    /\ CurLine.is_snapshot = "true"
    /\ conv' = [conv EXCEPT !.pos = @ + 1, !.f = SnapshotLine(conv.snapshot_mode, @, CurLine)]
    /\ UNCHANGED convFrame

\* any other line of a depth file
ReadDepth ==
    /\ Reading
    /\ ~IsInvalid(CurLine)
    /\ CurFile.file_type = DEPTH
    /\ CurLine.is_snapshot # "true"
    /\ conv' = [conv EXCEPT !.pos = @ + 1, !.f = DepthLine(@, CurLine)]
    /\ UNCHANGED convFrame

\* the end of the file: sets.append(tmp[:row_num])
CloseFile ==
    /\ conv.stage = "reading"
    /\ conv.pos = Len(CurFile.lines)
    /\ conv' = [conv EXCEPT !.sets = Append(@, conv.f.tmp),
                            !.stage = IF conv.file = Len(conv.input_files) THEN "merge" ELSE "next_file"]
    /\ UNCHANGED convFrame

\* merge, sort, correct, validate, save and return
Finish(num_corr) ==
    /\ conv.stage = "merge"
    /\ conv' = ConvertTail(conv, num_corr)
    /\ UNCHANGED convFrame

NextConv ==
    \/ OpenFile
    \/ ReadInvalid
    \/ ReadTrade
    \/ ReadSnapshot
    \/ ReadDepth
    \/ CloseFile
    \/ \E n \in NumCorr : Finish(n)

SpecConv == InitConv /\ [][NextConv]_vars

\* ---- the output of a file against its lines ----
IsSnap(line) == line.is_snapshot = "true"
NotInvalid(line) == ~IsInvalid(line)
\* the lines of a file that convert does not skip as invalid
ValidLines(file) == SelectSeq(file.lines, NotInvalid)
\* how often a row occurs in an output
CountIn(out, row) == Cardinality({k \in 1..Len(out) : out[k] = row})
\* the depth files whose output is complete, by their index in input_files
ClosedDepthFiles == {k \in 1..Len(conv.sets) : conv.input_files[k].file_type = DEPTH}
\* a depth line that is not a snapshot line comes after line i
Ended(V, i) == \E j \in (i + 1)..Len(V) : ~IsSnap(V[j])
\* a depth line that is not a snapshot line comes before line i
AfterSod(V, i) == \E j \in 1..(i - 1) : ~IsSnap(V[j])
\* the snapshot lines a..b of V are a contiguous block that the mode does not ignore
IsBlock(V, a, b) ==
    /\ a <= b
    /\ \A i \in a..b : IsSnap(V[i])
    /\ a = 1 \/ ~IsSnap(V[a - 1])
    /\ b = Len(V) \/ ~IsSnap(V[b + 1])
    /\ conv.snapshot_mode # "ignore"
    /\ conv.snapshot_mode = "ignore_sod" => AfterSod(V, a)
IsBid(line) == line.side = "bid"
IsAsk(line) == line.side # "bid"
RECURSIVE RowsOf(_)
RowsOf(lines) == IF lines = <<>> THEN <<>> ELSE <<SnapshotRow(Head(lines))>> \o RowsOf(Tail(lines))
\* what the claim describes for one side of a block: the clear event with the
\* timestamps of the first line and the price of the last, then the rows in input order
Group(lines, side) ==
    IF lines = <<>> THEN <<>>
    ELSE <<<<DEPTH_CLEAR_EVENT, lines[1].timestamp, lines[1].local_timestamp, side,
             lines[Len(lines)].price, 0>>>> \o RowsOf(lines)
\* what the claim describes for the block a..b: the bid group, the ask group and
\* the row of the line that ended the block
BlockRows(V, a, b) ==
    Group(SelectSeq(SubSeq(V, a, b), IsBid), 1) \o Group(SelectSeq(SubSeq(V, a, b), IsAsk), -1)
        \o (IF b < Len(V) THEN <<DepthRow(V[b + 1])>> ELSE <<>>)
\* s occurs in out as a run of adjacent rows
OccursIn(s, out) == \E k \in 0..(Len(out) - Len(s)) : SubSeq(out, k + 1, k + Len(s)) = s
\* the clear events of an output for one side
ClearsOf(out, side) == {k \in 1..Len(out) : out[k][1] = DEPTH_CLEAR_EVENT /\ out[k][4] = side}
\* the blocks of V, all of them or only those a later line ended, having a line of the side
BlocksWith(V, all, Side(_)) ==
    {ab \in (1..Len(V)) \X (1..Len(V)) :
        /\ IsBlock(V, ab[1], ab[2])
        /\ all \/ ab[2] < Len(V)
        /\ \E i \in ab[1]..ab[2] : Side(V[i])}
\* the output of every closed depth file holds the rows of its blocks as described
BlocksEmitted(all) ==
    \A k \in ClosedDepthFiles :
        LET V == ValidLines(conv.input_files[k])
            out == conv.sets[k]
        IN  /\ \A a, b \in 1..Len(V) :
                   (IsBlock(V, a, b) /\ (all \/ b < Len(V))) => OccursIn(BlockRows(V, a, b), out)
            /\ Cardinality(ClearsOf(out, 1)) = Cardinality(BlocksWith(V, all, IsBid))
            /\ Cardinality(ClearsOf(out, -1)) = Cardinality(BlocksWith(V, all, IsAsk))

\* C16: for every contiguous snapshot block of a depth file that is not
\* ignored, the output of the file contains, for each side with a snapshot row,
\* one DEPTH_CLEAR_EVENT of that side with the price of the side's last snapshot
\* row and the timestamps of its first, immediately followed by the side's rows
\* in input order; the bid group precedes the ask group, both precede the
\* DEPTH_EVENT row that ended the block, and a side without rows gets no clear.
C16_SnapshotBlocks == BlocksEmitted(TRUE)

\* the same for the blocks that a later depth line ended
C16_EndedBlocks == BlocksEmitted(FALSE)

\* C17: with snapshot_mode 'process' every snapshot row read from a depth file
\* appears exactly once as a DEPTH_SNAPSHOT_EVENT in the output of the file,
\* the rows of a snapshot block at the end of the file included.
C17_AllSnapshotsProcessed ==
    conv.snapshot_mode = "process" =>
        \A k \in ClosedDepthFiles :
            LET V == ValidLines(conv.input_files[k]) IN
            \A i \in 1..Len(V) : IsSnap(V[i]) => CountIn(conv.sets[k], SnapshotRow(V[i])) = 1

\* the same for the snapshot rows that a later depth line follows
C17_EndedSnapshotsProcessed ==
    conv.snapshot_mode = "process" =>
        \A k \in ClosedDepthFiles :
            LET V == ValidLines(conv.input_files[k]) IN
            \A i \in 1..Len(V) :
                IsSnap(V[i]) => CountIn(conv.sets[k], SnapshotRow(V[i])) = IF Ended(V, i) THEN 1 ELSE 0

\* what snapshot_mode decides, for all snapshot rows or for those a later line follows
ModeDecides(all) ==
    \A k \in ClosedDepthFiles :
        LET V == ValidLines(conv.input_files[k])
            out == conv.sets[k]
        IN  /\ conv.snapshot_mode = "ignore" =>
                   \A j \in 1..Len(out) : out[j][1] \notin {DEPTH_SNAPSHOT_EVENT, DEPTH_CLEAR_EVENT}
            /\ conv.snapshot_mode = "ignore_sod" =>
                   \A i \in 1..Len(V) :
                       (IsSnap(V[i]) /\ (all \/ Ended(V, i))) =>
                           CountIn(out, SnapshotRow(V[i])) = IF AfterSod(V, i) THEN 1 ELSE 0
            /\ \A i \in 1..Len(V) : ~IsSnap(V[i]) => CountIn(out, DepthRow(V[i])) = 1
            /\ Cardinality({j \in 1..Len(out) : out[j][1] = DEPTH_EVENT}) =
                   Cardinality({i \in 1..Len(V) : ~IsSnap(V[i])})

\* C18: with 'ignore' the output holds no DEPTH_SNAPSHOT_EVENT and no
\* DEPTH_CLEAR_EVENT row; with 'ignore_sod' exactly the snapshot rows before the
\* first depth row of the file that is not a snapshot row are skipped and every
\* later snapshot block is emitted; in all modes every depth row that is not a
\* snapshot row yields exactly one DEPTH_EVENT row.
C18_ModeDecides == ModeDecides(TRUE)

\* the same with 'every later snapshot block' read as every later block that a
\* depth line ended
C18_ModeDecidesEnded == ModeDecides(FALSE)

\* C19: convert fails with an error, writes no output file and returns no data
\* whenever validate_data on the corrected data is negative; otherwise it
\* returns the corrected data and writes the file only if output_filename is given.
C19_ValidateGate ==
    /\ conv.stage = "raised" =>
           /\ conv.num_corr < 0
           /\ conv.saved = <<>>
           /\ conv.returned = <<>>
    /\ conv.stage = "returned" =>
           /\ conv.num_corr >= 0
           /\ conv.returned = <<Corrected(conv.sets)>>
           /\ conv.output_filename = None => conv.saved = <<>>
           /\ conv.output_filename # None =>
                  conv.saved = <<[file |-> conv.output_filename, data |-> conv.returned[1]]>>

\* convert raised on data of two files although an output file was asked for
C19_Witness ==
    /\ conv.stage = "raised"
    /\ conv.output_filename # None
    /\ Len(conv.sets) = 2
    /\ Len(conv.sets[2]) > 1

(***************************************************************************)
(* The order step and the data step of Proc.process, step by step.         *)
(***************************************************************************)

\* the number of leading entries of an order list received no later than f
Leading(list, f) ==
    CHOOSE k \in 0..Len(list) :
        /\ \A i \in 1..k : list[i][2] <= f
        /\ k < Len(list) => list[k + 1][2] > f

\* C22: an order step of Proc.process removes from the inbound bus exactly the
\* leading entries whose receive timestamp is <= the frontmost_timestamp read at
\* the start of the step, passes each of them once to _process_recv_order in
\* bus order, leaves every later entry in the bus in its original order, and
\* finally sets frontmost_timestamp to the receive timestamp of the new head
\* entry, or to 0 if the bus became empty.
C22_OrderStep ==
    [][(call'.op = "process" /\ call'.branch = "order") =>
           LET list == orders_from.order_list
               k == Leading(list, orders_from.frontmost_timestamp)
           IN  /\ Len(call'.events) = k
               /\ \A i \in 1..k :
                      /\ call'.events[i].order = list[i][1]
                      /\ call'.events[i].ts = list[i][2]
               /\ orders_from'.order_list = SubSeq(list, k + 1, Len(list))
               /\ orders_from'.frontmost_timestamp =
                      IF k < Len(list) THEN list[k + 1][2] ELSE 0]_vars

\* an order step passed on one order and left a later one, whose receive
\* timestamp is the new frontmost_timestamp
C22_Witness ==
    /\ call.op = "process"
    /\ call.branch = "order"
    /\ Len(call.events) = 1
    /\ Len(orders_from.order_list) = 1
    /\ orders_from.frontmost_timestamp = orders_from.order_list[1][2]
    /\ orders_from.frontmost_timestamp > call.events[1].ts

\* process is called right after next_timestamp returned a positive timestamp
ProcessAfterNextTimestamp == call.op = "next_timestamp" /\ call.ret > 0 /\ call'.op = "process"

\* that process call handles events of timestamp call.ret only: one data row in
\* bounds of the held chunk, or at least one order, on the branch next_timestamp took
HandlesExactly ==
    /\ call'.branch = call.branch
    /\ call'.events # <<>>
    /\ \A i \in 1..Len(call'.events) : call'.events[i].ts = call.ret
    /\ call'.branch = "data" =>
           /\ Len(call'.events) = 1
           /\ row_num' < Len(data'.rows)
           /\ data'.rows[row_num' + 1] = call.ret
    /\ call'.branch = "order" =>
           \A i \in 1..Len(call'.events) : call'.events[i].kind = "order"

\* C23 as stated: whenever next_timestamp() returns t > 0, the immediately
\* following process call handles events whose timestamp is exactly t and
\* nothing else, on the branch next_timestamp chose.
C23_AgreeAsStated == [][ProcessAfterNextTimestamp => HandlesExactly]_vars

\* C23 amended: provided every append to the inbound bus requested a timestamp
\* of at least 1, whenever next_timestamp() returns t > 0 the immediately
\* following process call handles events whose timestamp is exactly t and
\* nothing else: one data row, in bounds of the held chunk, whose view-column
\* timestamp is t, or at least one order, all popped orders having receive
\* timestamp t; next_timestamp and process choose the same branch.
C23_Agree == [][(ProcessAfterNextTimestamp /\ reqs.ge_one) => HandlesExactly]_vars

\* process popped two orders of the timestamp next_timestamp had returned,
\* while a data row of a later timestamp was waiting
C23_Witness ==
    /\ call.op = "process"
    /\ call.branch = "order"
    /\ reqs.ge_one
    /\ Len(call.events) = 2
    /\ call.d > call.f

\* the rows of positive timestamp among rows first + 1, first + 2, ... of the
\* reader, each with its place among all rows
RECURSIVE Positives(_, _)
Positives(rows, first) ==
    IF rows = <<>> THEN <<>>
    ELSE (IF Head(rows) > 0 THEN <<[index |-> first + 1, ts |-> Head(rows)]>> ELSE <<>>)
             \o Positives(Tail(rows), first + 1)

\* C24: over a full run of a processor (from construction, with no
\* _proc_reset), every reader row whose view-column timestamp is positive is
\* passed to _process_data exactly once and in reader order, across chunk
\* boundaries, and every row whose timestamp is zero or negative is skipped:
\* the rows passed so far followed by the positive rows not yet reached are the
\* positive rows of the reader, and when next_timestamp finds no data the rows
\* passed are all of them.
C24_RowDelivery ==
    resets = 0 =>
        LET all == Flatten(chunks) IN
        /\ passed \o Positives(RemainingRows, Len(all) - Len(RemainingRows)) = Positives(all, 0)
        /\ \A i \in 1..Len(passed) : passed[i].ts > 0 /\ all[passed[i].index] = passed[i].ts
        /\ (call.op = "next_timestamp" /\ call.d <= 0) => passed = Positives(all, 0)

\* the run is over: a row of the first chunk was skipped and the positive rows
\* of two chunks were passed
C24_Witness ==
    /\ resets = 0
    /\ call.op = "next_timestamp"
    /\ call.d <= 0
    /\ Len(chunks) = 2
    /\ Len(passed) = 1
    /\ passed[1].index = 2

(***************************************************************************)
(* One run of a processor: the sender appends, then the caller repeats     *)
(* next_timestamp and, while it returns a positive timestamp, process.     *)
(* The caller's loop keeps going, hence the weak fairness of its steps.    *)
(***************************************************************************)

\* appends come before the loop starts
RunAppend(id, req) ==
    /\ call.op \in {"init", "append"}
    /\ AppendFrom(id, req)

\* the caller asks for the next timestamp
RunNextTimestamp ==
    /\ call.op \in {"init", "append", "process"}
    /\ NextTimestamp

\* it was positive: the caller calls process, which takes the order part
RunProcessOrder ==
    /\ call.op = "next_timestamp"
    /\ call.ret > 0
    /\ ProcessOrder

\* it was positive: the caller calls process, which takes the data part
RunProcessData ==
    /\ call.op = "next_timestamp"
    /\ call.ret > 0
    /\ ProcessData

RunLoop == RunNextTimestamp \/ RunProcessOrder \/ RunProcessData

NextRun ==
    \/ \E id \in Ids, req \in Requests : RunAppend(id, req)
    \/ RunNextTimestamp
    \/ RunProcessOrder
    \/ RunProcessData

SpecRun == Init /\ [][NextRun]_vars /\ WF_vars(RunLoop)

\* the remaining data rows plus the held bus entries
Measure == Len(RemainingRows) + Len(orders_from.order_list)

\* next_timestamp has returned a value <= 0: the loop is over
RunOver == call.op = "next_timestamp" /\ call.ret <= 0

\* each process call of the loop strictly reduces the measure
Reduces ==
    [][(call.op = "next_timestamp" /\ call.ret > 0 /\ call'.op = "process") =>
           Measure' < Measure]_vars

\* C25 as stated: with finitely many rows and no further appends, repeatedly
\* calling process while next_timestamp() > 0 eventually reaches a state where
\* next_timestamp() <= 0 with the inbound bus empty; each such process call
\* strictly reduces the number of remaining data rows plus held bus entries.
C25_TerminatesAsStated ==
    /\ Reduces
    /\ <>(RunOver /\ Len(orders_from.order_list) = 0)

\* C25 amended: with finitely many rows and no further appends, repeatedly
\* calling process while next_timestamp() > 0 eventually reaches a state where
\* next_timestamp() <= 0, each such process call strictly reducing the number
\* of remaining data rows plus held bus entries; the inbound bus is empty then
\* provided every append requested a timestamp of at least 1.
C25_Terminates ==
    /\ Reduces
    /\ <>(RunOver /\ (reqs.ge_one => Len(orders_from.order_list) = 0))

\* the loop is over after two data rows and then an order were handled
C25_Witness ==
    /\ RunOver
    /\ reqs.ge_one
    /\ Len(passed) = 2
    /\ processed # <<>>
    /\ processed[1] > passed[2].ts
    /\ Len(orders_from.order_list) = 0

(***************************************************************************)
(* OrderBus.delitem and the fields it leaves alone.                        *)
(***************************************************************************)

\* C26: delitem(i) removes exactly the entry at index i and leaves
\* frontmost_timestamp and the order and receive timestamp of every remaining
\* entry unchanged, in their order; updating frontmost_timestamp is left to
\* the caller.
C26_DelitemFrame ==
    [][call'.op = "delitem" =>
           LET i == call'.arg[1]
               list == orders_from.order_list
               rest == orders_from'.order_list
           IN  /\ i < Len(list)
               /\ call'.arg[2] = list[i + 1][1].order_id
               /\ Len(rest) = Len(list) - 1
               /\ \A j \in 1..i : rest[j] = list[j]
               /\ \A j \in (i + 1)..Len(rest) : rest[j] = list[j + 1]
               /\ orders_from'.frontmost_timestamp = orders_from.frontmost_timestamp]_vars

\* the head was deleted without the caller's update: frontmost_timestamp is
\* the deleted entry's timestamp, below the smallest timestamp still held
C26_Witness ==
    /\ call.op = "delitem"
    /\ call.arg[1] = 0
    /\ reqs.ge_one
    /\ orders_from.order_list /= <<>>
    /\ orders_from.frontmost_timestamp > 0
    /\ orders_from.frontmost_timestamp < MinOf(RecvTs(orders_from))

(***************************************************************************)
(* Order.copy: equal at the copy, independent afterwards.                  *)
(***************************************************************************)

\* C27: Order.copy returns a new order whose every field equals the
\* original's (order_id, price_tick, tick_size, qty, leaves_qty, side,
\* time_in_force, order_type, status, req, exch_timestamp, local_timestamp,
\* exec_price_tick, exec_qty, maker, q[0], q[1]); afterwards changing a field
\* of the copy, elements of q included, leaves the original unchanged, and
\* changing a field of the original leaves the copy unchanged.
C27_CopyIndependent ==
    [][/\ ord_call'.op = "append_copy" =>
            /\ ord_call'.ref = Len(heap.orders) + 1
            /\ Deref(heap', ord_call'.ref) = Deref(heap, Caller)
            /\ \A r \in 1..Len(heap.orders) : Deref(heap', r) = Deref(heap, r)
       /\ ord_call'.op = "set" =>
            \A r \in 2..Len(heap.orders) : Deref(heap', r) = Deref(heap, r)
       /\ (ord_call'.op = "set_held" /\ ord_call'.ref # Caller) =>
            Deref(heap', Caller) = Deref(heap, Caller)]_vars

\* a copy was taken of an order whose status had been changed, and q[0] of
\* the copy was changed afterwards: the copy carries the status, and the
\* original keeps its q[0]
C27_Witness ==
    /\ ord_call.op = "set_held"
    /\ ord_call.ref # Caller
    /\ ord_call.field = "q0"
    /\ Deref(heap, ord_call.ref).q[1] # Deref(heap, Caller).q[1]
    /\ Deref(heap, ord_call.ref).status = Deref(heap, Caller).status
    /\ Deref(heap, Caller).status # NONE

(***************************************************************************)
(* Two processors run side by side on the same reader chunks, given the    *)
(* same calls with the same arguments.  A processor is its inbound bus,    *)
(* its reader cursor, data and row_num, and its State_ object; a call      *)
(* yields the processor after it and what the call passed on or returned.  *)
(***************************************************************************)
MaxCalls == 4       \* most calls made to the pair of processors

NoOut == [events |-> <<>>, ret |-> 0, raised |-> FALSE]

\* orders_from.append(order, timestamp)
Proc_append(p, id, req) ==
    [p |-> [p EXCEPT !.orders_from = OrderBus_append(@, Order(id), req)], out |-> NoOut]

\* Proc.next_timestamp()
Proc_next_timestamp(p) ==
    LET s == next_data_timestamp_column(p.cur)
        next_data_timestamp == s.ret
        next_recv_order_timestamp == p.orders_from.frontmost_timestamp
    IN  [p |-> [p EXCEPT !.cur = [s EXCEPT !.ret = 0]],
         out |-> [NoOut EXCEPT !.ret =
                     IF NextTimestampChoosesOrder(next_recv_order_timestamp, next_data_timestamp)
                     THEN next_recv_order_timestamp ELSE next_data_timestamp]]

\* Proc.process(wait_resp)
Proc_process(p) ==
    LET s == next_data_timestamp_column(p.cur)
        next_data_timestamp == s.ret
        next_recv_order_timestamp == p.orders_from.frontmost_timestamp
        r == OrderPart(p.orders_from)
    IN  IF ProcessChoosesOrder(next_recv_order_timestamp, next_data_timestamp)
        THEN [p |-> [p EXCEPT !.cur = [s EXCEPT !.ret = 0], !.orders_from = r.bus],
              out |-> [NoOut EXCEPT !.events = OrderEvents(r.popped)]]
        ELSE IF s.next_row_num < Len(s.next_data.rows)
        THEN [p |-> [p EXCEPT !.cur = [s EXCEPT !.ret = 0, !.next_row_num = @ + 1],
                              !.data = s.next_data, !.row_num = s.next_row_num],
              out |-> [NoOut EXCEPT
                          !.events = <<Event("data", s.next_data.rows[s.next_row_num + 1])>>]]
        ELSE [p |-> [p EXCEPT !.cur = [s EXCEPT !.ret = 0],
                              !.data = s.next_data, !.row_num = s.next_row_num],
              out |-> [NoOut EXCEPT !.raised = TRUE]]

\* state.apply_fill(order)
Proc_apply_fill(p, order) ==
    IF DivRaises(p.state.asset_type, Order_exec_price(order))
    THEN [p |-> p, out |-> [NoOut EXCEPT !.raised = TRUE]]
    ELSE [p |-> [p EXCEPT !.state = State_apply_fill(@, order)], out |-> NoOut]

ProcStep(p, op, arg) ==
    CASE op = "append" -> Proc_append(p, arg[1], arg[2])
      [] op = "next_timestamp" -> Proc_next_timestamp(p)
      [] op = "process" -> Proc_process(p)
      [] op = "apply_fill" -> Proc_apply_fill(p, arg)

\* a call that may be lost
Outcomes_lossy(p, op, arg) == {ProcStep(p, op, arg), [p |-> p, out |-> NoOut]}

\* what a call can produce from a processor: the code has one outcome
Outcomes(p, op, arg) == {ProcStep(p, op, arg)}

\* the fills handed to the State_ objects of the pair
TwiceFills == {o \in FillOrders : o.exec_qty = 1 /\ o.exec_price_tick \in {0, 2}}

InitTwice ==
    /\ \E rows \in RowSeqs, n \in 1..MaxChunkLen : InitProcVars(Split(rows, n))
    /\ StateIdle
    /\ OrderIdle
    /\ ConvIdle
    /\ \E a \in AssetTypes, mf \in MakerFees, tf \in TakerFees :
        LET p == [orders_from |-> orders_from, cur |-> Cursor, data |-> data, row_num |-> row_num,
                  state |-> State_init(R(0), R(0), R(0), mf, tf, a)]
        IN  twice = [a |-> p, b |-> p, op |-> "init", arg |-> <<>>,
                     out_a |-> NoOut, out_b |-> NoOut, calls |-> 0, fills |-> 0]

twiceFrame == <<busVars, procVars, call, processed, reqs, stateVars, orderVars, convVars>>

\* the same call made to both processors
TwiceCall(op, arg) ==
    /\ twice.calls < MaxCalls
    /\ \E x \in Outcomes(twice.a, op, arg), y \in Outcomes(twice.b, op, arg) :
        twice' = [a |-> x.p, b |-> y.p, op |-> op, arg |-> arg,
                  out_a |-> x.out, out_b |-> y.out, calls |-> twice.calls + 1,
                  fills |-> twice.fills + (IF op = "apply_fill" THEN 1 ELSE 0)]
    /\ UNCHANGED twiceFrame

TwiceAppend(id, req) ==
    /\ Len(twice.a.orders_from.order_list) < MaxBus
    /\ Len(twice.b.orders_from.order_list) < MaxBus
    /\ TwiceCall("append", <<id, req>>)

TwiceNextTimestamp == TwiceCall("next_timestamp", <<>>)

TwiceProcess == TwiceCall("process", <<>>)

TwiceApplyFill(order) ==
    /\ twice.fills < MaxFills
    /\ TwiceCall("apply_fill", order)

NextTwice ==
    \/ \E id \in Ids, req \in Requests : TwiceAppend(id, req)
    \/ TwiceNextTimestamp
    \/ TwiceProcess
    \/ \E order \in TwiceFills : TwiceApplyFill(order)

SpecTwice == InitTwice /\ [][NextTwice]_vars

====
